---- MODULE Spec2Model ----
(***************************************************************************)
(* Model of neural_painters/vae_painter.py: the two-phase training loop    *)
(* train_vae_neural_painter, the checkpoint store (save_train_checkpoint,  *)
(* load_from_latest_checkpoint) and the process life cycle around them     *)
(* (external termination, restart with resume).                            *)
(*                                                                         *)
(* Abstractions.  A network is [kind, shape, params, grad]: params counts  *)
(* the optimizer updates its parameters have received (the parameter       *)
(* values are a deterministic function of that history in this model),     *)
(* shape is what load_state_dict compares, grad is the .grad of its        *)
(* parameters ("none" until a backward pass reaches them).  An optimizer   *)
(* is [kind, steps, lr]; lr is the literal of the source ("0.01", ...),    *)
(* 1e-4 being written "0.0001".  A file is [status, data] with status      *)
(* "absent", "partial" (opened for writing, not yet completely written)    *)
(* or "ok".                                                                *)
(***************************************************************************)
EXTENDS Integers, Sequences, FiniteSets, TLC

\* ------------------------------------------------------------------ bounds
\* Number of process starts (the first start plus the restarts).
MaxRuns == 2
\* Largest number of batches the data loader yields per pass.
MaxBatches == 2

\* Pairs (vae_train_steps, step of the checkpoint found on disk at the first
\* start; -1: empty save directory).  The steps are chosen so that the runs
\* cross 10000/10001, N, N+20000 and N+80000.
Scenarios ==
  { <<51, -1>>, <<51, 20000>>, <<51, 80000>>, <<10051, 9950>> }

\* Triples (save_every_n_steps, log_every_n_steps, tensorboard_every_n_steps).
Cadences == { <<50, 2, 3>>, <<25, 4, 1>> }

\* action_size values a process may be started with.
ActionSizes == { 11, 12 }

\* z_size values (fixed over the life of a save directory in this model).
ZSizes == { 64 }

VARIABLES
  \* parameters of train_vae_neural_painter
  vae_train_steps, save_every_n_steps, log_every_n_steps,
  tensorboard_every_n_steps, n_batches, action_size, z_size,
  \* process
  pc, runs, pass, i, batch_idx, batch_idx_offset, executed, load_result,
  \* objects in memory
  encoder, decoder, predictor, optimizer1, optimizer2,
  \* what the last executed step emitted
  hooks,
  \* save directory
  latest, numbered,
  \* pretrained-bundle cache file, a VAENeuralPainter being built and used,
  \* one evaluation of kl_loss_function
  cache, painter, kl

params == <<vae_train_steps, save_every_n_steps, log_every_n_steps,
            tensorboard_every_n_steps, n_batches, z_size>>
proc == <<pc, runs, pass, i, batch_idx, batch_idx_offset, executed, load_result>>
mem == <<encoder, decoder, predictor, optimizer1, optimizer2>>
disk == <<latest, numbered>>
inference == <<cache, painter, kl>>
training == <<params, action_size, proc, mem, hooks, disk>>
vars == <<params, action_size, proc, mem, hooks, disk, inference>>

\* ------------------------------------------------------- networks, optimizers
VAEEncoder(z) == [kind |-> "encoder", shape |-> <<z>>, params |-> 0, grad |-> "none"]
VAEDecoder(z) == [kind |-> "decoder", shape |-> <<z>>, params |-> 0, grad |-> "none"]
VAEPredictor(a, z) ==
  [kind |-> "predictor", shape |-> <<a, z>>, params |-> 0, grad |-> "none"]
Adam(k) == [kind |-> k, steps |-> 0, lr |-> "0.0001"]

\* module.state_dict(): parameters and buffers; gradients are not part of it.
ModuleStateDict(m) == [kind |-> m.kind, shape |-> m.shape, params |-> m.params]
\* optimizer.state_dict(): per-parameter state and param_groups (with lr).
OptimizerStateDict(o) == [kind |-> o.kind, steps |-> o.steps, lr |-> o.lr]

\* module.load_state_dict(sd) succeeds iff keys and shapes match.
CanLoad(m, sd) == m.kind = sd.kind /\ m.shape = sd.shape
ModuleLoadStateDict(m, sd) == [m EXCEPT !.params = sd.params]
\* Variant that restores the per-parameter state but keeps the target's
\* param_groups, and with them its learning rate.
OptimizerLoadStateOnly(o, sd) == [o EXCEPT !.steps = sd.steps]
OptimizerLoadStateDict(o, sd) == [o EXCEPT !.steps = sd.steps, !.lr = sd.lr]

\* ------------------------------------------------------------------- files
NoData == [batch_idx |-> -1]
Absent == [status |-> "absent", data |-> NoData]
Partial == [status |-> "partial", data |-> NoData]
Written(obj) == [status |-> "ok", data |-> obj]

\* obj_to_save of save_train_checkpoint.
ObjToSave(step, enc, dec, pred, opt1, opt2) ==
  [ batch_idx |-> step,
    encoder_state_dict |-> ModuleStateDict(enc),
    decoder_state_dict |-> ModuleStateDict(dec),
    predictor_state_dict |-> ModuleStateDict(pred),
    optimizer1_state_dict |-> OptimizerStateDict(opt1),
    optimizer2_state_dict |-> OptimizerStateDict(opt2) ]

\* optimizer.load_state_dict(sd) succeeds iff the parameter groups match in size.
CanLoadOptimizer(o, sd) == o.kind = sd.kind

\* Lines 172-174: no latest file; nothing is touched, -1 is returned.
NotFound(enc, dec, pred, opt1, opt2) ==
  [ raised |-> FALSE, ret |-> -1, encoder |-> enc, decoder |-> dec,
    predictor |-> pred, optimizer1 |-> opt1, optimizer2 |-> opt2 ]

\* Lines 175-182: torch.load raises on a file that is not completely written;
\* otherwise the five bundles are restored in place one after the other, the
\* first one that cannot be loaded raises and the later ones are not reached.
Restore(file, enc, dec, pred, opt1, opt2) ==
  IF file.status = "partial"
  THEN [ raised |-> TRUE, ret |-> -1, encoder |-> enc, decoder |-> dec,
         predictor |-> pred, optimizer1 |-> opt1, optimizer2 |-> opt2 ]
  ELSE
    LET checkpoint == file.data
        ok1 == CanLoad(enc, checkpoint.encoder_state_dict)
        ok2 == ok1 /\ CanLoad(dec, checkpoint.decoder_state_dict)
        ok3 == ok2 /\ CanLoad(pred, checkpoint.predictor_state_dict)
        ok4 == ok3 /\ CanLoadOptimizer(opt1, checkpoint.optimizer1_state_dict)
        ok5 == ok4 /\ CanLoadOptimizer(opt2, checkpoint.optimizer2_state_dict)
    IN [ raised |-> ~ok5,
         ret |-> IF ok5 THEN checkpoint.batch_idx ELSE -1,
         encoder |-> IF ok1
                     THEN ModuleLoadStateDict(enc, checkpoint.encoder_state_dict)
                     ELSE enc,
         decoder |-> IF ok2
                     THEN ModuleLoadStateDict(dec, checkpoint.decoder_state_dict)
                     ELSE dec,
         predictor |-> IF ok3
                       THEN ModuleLoadStateDict(pred, checkpoint.predictor_state_dict)
                       ELSE pred,
         optimizer1 |-> IF ok4
                        THEN OptimizerLoadStateDict(opt1, checkpoint.optimizer1_state_dict)
                        ELSE opt1,
         optimizer2 |-> IF ok5
                        THEN OptimizerLoadStateDict(opt2, checkpoint.optimizer2_state_dict)
                        ELSE opt2 ]

\* Variant of load_from_latest_checkpoint whose "no checkpoint" value is 0.
LoadReturningZero(file, enc, dec, pred, opt1, opt2) ==
  IF file.status = "absent"
  THEN [NotFound(enc, dec, pred, opt1, opt2) EXCEPT !.ret = 0]
  ELSE Restore(file, enc, dec, pred, opt1, opt2)

\* load_from_latest_checkpoint: the value returned (ret), whether it raised, and
\* the five targets as the call leaves them.
load_from_latest_checkpoint(file, enc, dec, pred, opt1, opt2) ==
  IF file.status = "absent"
  THEN NotFound(enc, dec, pred, opt1, opt2)
  ELSE Restore(file, enc, dec, pred, opt1, opt2)

\* ---------------------------------------------------------------- schedules
\* Variant of the phase selector with the comparison off by one.
IsPhase1Inclusive(step, n) == step <= n

\* Phase selector of the loop body.
IsPhase1(step, n) == step < n

\* Variant of the mask multiplier that drops to 1 at step 10000 already.
MaskMultFromThreshold(step) == IF step >= 10000 THEN 1 ELSE 10

\* Mask multiplier of a phase-1 step.
MaskMult(step) == IF step > 10000 THEN 1 ELSE 10

\* Variant of the staircase with inclusive thresholds.
LearningRateInclusive(step, n) ==
  IF step <= n + 20000 THEN "0.01"
  ELSE IF step <= n + 80000 THEN "0.001"
  ELSE "0.0001"

\* "Hardcoded manual LR adjustments" of a phase-2 step.
LearningRate(step, n) ==
  IF step < n + 20000 THEN "0.01"
  ELSE IF step < n + 80000 THEN "0.001"
  ELSE "0.0001"

\* Variant of the cadence test that skips step 0.
DueAfterZero(step, every) == step > 0 /\ step % every = 0

\* step % every == 0
Due(step, every) == step % every = 0

\* ------------------------------------------------------------ initial state
Min(a, b) == IF a < b THEN a ELSE b
Max(a, b) == IF a > b THEN a ELSE b

\* The checkpoint an earlier process of the same training left at step s:
\* steps 0..s have been executed, the first n of them in phase 1.
EarlierCheckpoint(s, n, a, z) ==
  [ batch_idx |-> s,
    encoder_state_dict |->
      [kind |-> "encoder", shape |-> <<z>>, params |-> Min(s + 1, n)],
    decoder_state_dict |->
      [kind |-> "decoder", shape |-> <<z>>, params |-> Min(s + 1, n)],
    predictor_state_dict |->
      [kind |-> "predictor", shape |-> <<a, z>>, params |-> Max(0, s + 1 - n)],
    optimizer1_state_dict |->
      [kind |-> "optimizer1", steps |-> Min(s + 1, n), lr |-> "0.0001"],
    optimizer2_state_dict |->
      [kind |-> "optimizer2", steps |-> Max(0, s + 1 - n),
       lr |-> IF s >= n THEN LearningRate(s, n) ELSE "0.0001"] ]

NoHooks == [ phase |-> 0, scalars |-> {}, images |-> FALSE, line |-> FALSE,
             save |-> FALSE, mask_mult |-> 0, forward |-> {} ]

\* Lines 215-223 of a process: loader, fresh networks, fresh optimizers.
Construct(enc, dec, pred, opt1, opt2, a, z) ==
  /\ enc = VAEEncoder(z)
  /\ dec = VAEDecoder(z)
  /\ pred = VAEPredictor(a, z)
  /\ opt1 = Adam("optimizer1")
  /\ opt2 = Adam("optimizer2")

\* --------------------------------------------- inference wrapper, KL loss
\* No training process: the variables of train_vae_neural_painter are idle.
TrainingOff ==
  /\ vae_train_steps = 0
  /\ save_every_n_steps = 1
  /\ log_every_n_steps = 1
  /\ tensorboard_every_n_steps = 1
  /\ n_batches = 1
  /\ action_size = 12
  /\ z_size = 64
  /\ Construct(encoder, decoder, predictor, optimizer1, optimizer2,
               action_size, z_size)
  /\ pc = "off"
  /\ runs = 0
  /\ pass = 0
  /\ i = 0
  /\ batch_idx = 0
  /\ batch_idx_offset = 0
  /\ executed = 0
  /\ load_result = -1
  /\ hooks = NoHooks
  /\ latest = Absent
  /\ numbered = << >>

\* exp(v) in thousandths, rounded down, for the exponents the model draws.
ExpMilli(v) ==
  CASE v = -1 -> 367
    [] v = 0 -> 1000
    [] v = 1 -> 2718

\* Action vectors and reparameterization noise fed to the wrapper.
ActionInputs == { 0, 1 }
Noise == { -1, 0, 1 }

\* VAEPredictor.forward (lines 76-88) on action x with noise eps, for weights
\* that have received pred.params updates: mu and log_var are functions of
\* the input and the weights (a module is built in training mode, where the
\* BatchNorm layers normalise with the statistics of the batch at hand),
\* z = mu + eps * exp(0.5 * log_var); mu and z in thousandths.
PredictorForward(pred, x, eps) ==
  LET mu == 1000 * (x + pred.params)
      log_var == 2 * ((x + pred.params) % 2)
      std == ExpMilli(log_var \div 2)
  IN [ z |-> mu + eps * std, mu |-> mu, log_var |-> log_var ]

\* VAEDecoder.forward (lines 53-60): a function of the input and the weights.
DecoderForward(dec, v) == [ input |-> v, weights |-> dec.params ]

\* The bundle the remote location serves: decoder and predictor state and a
\* step marker; action_size 12 and z_size 64 (line 98).
PretrainedBundle(z) ==
  [ batch_idx |-> 400000,
    decoder_state_dict |-> [kind |-> "decoder", shape |-> <<z>>, params |-> 300000],
    predictor_state_dict |->
      [kind |-> "predictor", shape |-> <<12, z>>, params |-> 100001] ]

\* What gdown.download may do: write the bundle to the cache path, raise, or
\* report the failure and return without a file, or leave a file that is not
\* a complete bundle.
DownloadOutcomes == { "written", "raises", "returns_none", "truncated" }

\* A wrapper that does not exist.
NoOut == [ input |-> 0, weights |-> -1 ]
NoForward == [ z |-> 0, mu |-> 0, log_var |-> 0 ]
NoPainter ==
  [ pc |-> "off", stochastic |-> FALSE, pretrained |-> FALSE,
    action_size |-> 0, z_size |-> 0,
    modules |-> << >>, downloads |-> 0, download |-> "none", tracked |-> 0,
    x |-> 0, eps |-> 0, predicted |-> NoForward, out |-> NoOut ]

\* No evaluation of kl_loss_function.
NoKl ==
  [ pc |-> "off", mu |-> << >>, logvar |-> << >>, kl_tolerance |-> 0,
    z_size |-> 0, KLD |-> [ num |-> [k |-> "fin", v |-> 0], den |-> 1 ] ]

\* A call VAENeuralPainter(action_size, z_size, stochastic, pretrained) about
\* to run, with the cache file the user's home holds at that moment.
PainterInit ==
  /\ TrainingOff
  /\ kl = NoKl
  /\ \E z \in ZSizes :
       /\ cache \in { Absent,
                      Partial,
                      Written(PretrainedBundle(z)),
                      Written(EarlierCheckpoint(100, 51, 12, z)),
                      Written(EarlierCheckpoint(100, 51, 11, z)) }
       /\ \E a \in ActionSizes, st \in BOOLEAN, pre \in BOOLEAN :
            painter = [ NoPainter EXCEPT !.pc = "new", !.stochastic = st,
                                         !.pretrained = pre,
                                         !.action_size = a, !.z_size = z ]

\* Variant of NeedsDownload that fetches the bundle on every construction.
NeedsDownloadAlways(file) == TRUE
\* Lines 109-111: the bundle is fetched when the cache path does not exist.
NeedsDownload(file) == file.status = "absent"

\* VAENeuralPainter.load_from_train_checkpoint (lines 124-128) on the modules
\* of a wrapper: torch.load raises on a missing file; the decoder bundle is
\* loaded, then the predictor bundle; no other key of the file is read but
\* 'batch_idx'.
load_from_train_checkpoint(modules, file) ==
  IF file.status # "ok"
  THEN [ raised |-> TRUE, modules |-> modules ]
  ELSE LET checkpoint == file.data
           ok1 == CanLoad(modules.decoder, checkpoint.decoder_state_dict)
           ok2 == ok1 /\ CanLoad(modules.predictor, checkpoint.predictor_state_dict)
       IN [ raised |-> ~ok2,
            modules |->
              [ decoder |-> IF ok1
                            THEN ModuleLoadStateDict(modules.decoder,
                                                     checkpoint.decoder_state_dict)
                            ELSE modules.decoder,
                predictor |-> IF ok2
                              THEN ModuleLoadStateDict(modules.predictor,
                                                       checkpoint.predictor_state_dict)
                              ELSE modules.predictor ] ]

\* VAENeuralPainter.__init__ (lines 93-115).
PainterCreate ==
  /\ painter.pc = "new"
  /\ LET fresh == [ predictor |-> VAEPredictor(painter.action_size, painter.z_size),
                    decoder |-> VAEDecoder(painter.z_size) ]
     IN IF ~painter.pretrained
        THEN /\ painter' = [ painter EXCEPT !.pc = "ready", !.modules = fresh ]
             /\ UNCHANGED cache
        ELSE \E outcome \in DownloadOutcomes :
               LET fetch == NeedsDownload(cache)
                   file == IF fetch /\ outcome = "written"
                           THEN Written(PretrainedBundle(painter.z_size))
                           ELSE IF fetch /\ outcome = "truncated"
                           THEN Partial
                           ELSE cache
                   r == load_from_train_checkpoint(fresh, file)
                   failed == fetch /\ outcome # "written"
               IN /\ cache' = file
                  /\ painter' =
                       [ painter EXCEPT
                           !.downloads = IF fetch THEN 1 ELSE 0,
                           !.download = IF fetch THEN outcome ELSE "none",
                           !.modules = IF fetch /\ outcome = "raises"
                                       THEN fresh ELSE r.modules,
                           !.pc = IF failed \/ r.raised
                                  THEN "aborted" ELSE "ready" ]
  /\ UNCHANGED <<training, kl>>

\* A training checkpoint a caller may pass to load_from_train_checkpoint.
TrainCheckpoints(z) ==
  { Written(EarlierCheckpoint(50, 51, 12, z)),
    Written(EarlierCheckpoint(20000, 51, 12, z)),
    Written(EarlierCheckpoint(20000, 51, 11, z)),
    Absent }

\* VAENeuralPainter.load_from_train_checkpoint called on a built wrapper.
PainterLoad ==
  /\ painter.pc = "ready"
  /\ painter.out = NoOut
  /\ \E file \in TrainCheckpoints(painter.z_size) :
       LET r == load_from_train_checkpoint(painter.modules, file)
       IN painter' = [ painter EXCEPT !.modules = r.modules,
                                      !.pc = IF r.raised THEN "raised" ELSE "loaded" ]
  /\ UNCHANGED <<training, cache, kl>>

\* Variant of PainterOutput that always decodes the sampled latent vector.
PainterOutputSampled(stochastic, f) == f.z
\* Lines 119-122: what the wrapper feeds its decoder.
PainterOutput(stochastic, f) == IF stochastic THEN f.z ELSE f.mu

\* VAENeuralPainter.forward (lines 117-122). The BatchNorm layers of the
\* predictor record the batch in their running statistics.
PainterForward ==
  /\ painter.pc \in {"ready", "loaded"}
  /\ painter.out = NoOut
  /\ \E x \in ActionInputs, eps \in Noise :
       LET f == PredictorForward(painter.modules.predictor, x, eps)
       IN painter' =
            [ painter EXCEPT
                !.x = x, !.eps = eps, !.predicted = f,
                !.tracked = painter.tracked + 1,
                !.out = DecoderForward(painter.modules.decoder,
                                       PainterOutput(painter.stochastic, f)) ]
  /\ UNCHANGED <<training, cache, kl>>

\* Tensor values: a finite number, an infinity (v is its sign) or NaN.
Fin(v) == [k |-> "fin", v |-> v]
PosInf == [k |-> "inf", v |-> 1]
NegInf == [k |-> "inf", v |-> -1]
NaN == [k |-> "nan", v |-> 0]

\* a + b, a - b, -a, a >= b and max(a, b) on tensor values.
XNeg(a) == IF a.k = "nan" THEN NaN ELSE [a EXCEPT !.v = 0 - a.v]
XAdd(a, b) ==
  IF a.k = "nan" \/ b.k = "nan" THEN NaN
  ELSE IF a.k = "inf" THEN (IF b.k = "inf" /\ b.v # a.v THEN NaN ELSE a)
  ELSE IF b.k = "inf" THEN b
  ELSE Fin(a.v + b.v)
XSub(a, b) == XAdd(a, XNeg(b))
XGe(a, b) ==
  IF a.k = "nan" \/ b.k = "nan" THEN FALSE
  ELSE IF a.k = "inf" THEN a.v > 0 \/ (b.k = "inf" /\ b.v < 0)
  ELSE IF b.k = "inf" THEN b.v < 0
  ELSE a.v >= b.v
\* torch.max of two tensors propagates NaN.
XMax(a, b) ==
  IF a.k = "nan" \/ b.k = "nan" THEN NaN ELSE IF XGe(a, b) THEN a ELSE b

\* logvar.exp() in thousandths: single precision overflows to +inf above 88.
XExp(v) == IF v > 88 THEN PosInf ELSE Fin(ExpMilli(v))

RECURSIVE XSum(_, _)
\* torch.sum / the sum of torch.mean over the first n entries of t.
XSum(t, n) == IF n = 0 THEN Fin(0) ELSE XAdd(XSum(t, n - 1), t[n])

\* Line 136 for one sample: -0.5 * sum(1 + logvar - mu^2 - exp(logvar)) over
\* dim 1. The summands are in thousandths; the factor -0.5 makes the result
\* the negated sum read in units of 1/2000.
RawKLD(mu_s, logvar_s) ==
  LET term == [ j \in DOMAIN mu_s |->
                  XSub(XSub(Fin(1000 + 1000 * logvar_s[j]),
                            Fin(1000 * mu_s[j] * mu_s[j])),
                       XExp(logvar_s[j])) ]
  IN XNeg(XSum(term, Len(mu_s)))

\* kl_tolerance * z_size in units of 1/2000, kl_tolerance in thousandths.
KlFloor(kl_tolerance, z) == Fin(2 * kl_tolerance * z)

\* Variant of kl_loss_function that averages first and clips the average.
KlClipAfterMean(mu, logvar, kl_tolerance, z) ==
  LET B == Len(mu)
      KLD == [ s \in 1..B |-> RawKLD(mu[s], logvar[s]) ]
      floorB == XSum([ s \in 1..B |-> KlFloor(kl_tolerance, z) ], B)
  IN [ num |-> XMax(XSum(KLD, B), floorB), den |-> B ]
\* kl_loss_function (lines 131-139). The mean is the fraction num / den, num
\* in units of 1/2000.
kl_loss_function(mu, logvar, kl_tolerance, z) ==
  LET B == Len(mu)
      KLD == [ s \in 1..B |-> RawKLD(mu[s], logvar[s]) ]
      clipped == [ s \in 1..B |-> XMax(KLD[s], KlFloor(kl_tolerance, z)) ]
  IN [ num |-> XSum(clipped, B), den |-> B ]

\* Inputs of kl_loss_function: pairs <<mu, logvar>> of one latent coordinate,
\* batches of 1 or 2 samples of 1 or 2 coordinates, tolerances in thousandths
\* and the z_size argument.
KlEntries == { <<0, 0>>, <<-1, 0>>, <<0, 1>>, <<0, -1>>, <<-1, 1>>, <<0, 100>> }
KlShapes == { <<1, 1>>, <<2, 1>>, <<1, 2>>, <<2, 2>> }
KlTolerances == { -500, 0, 500, 1500 }
KlZSizes == { 1, 2 }

\* A call kl_loss_function(mu, logvar, kl_tolerance, z_size) about to run.
KlInit ==
  /\ TrainingOff
  /\ cache = Absent
  /\ painter = NoPainter
  /\ \E sh \in KlShapes :
       \E e \in [1..sh[1] -> [1..sh[2] -> KlEntries]] :
         \E tol \in KlTolerances, z \in KlZSizes :
           kl = [ NoKl EXCEPT
                    !.pc = "new",
                    !.mu = [ s \in 1..sh[1] |-> [ j \in 1..sh[2] |-> e[s][j][1] ] ],
                    !.logvar = [ s \in 1..sh[1] |-> [ j \in 1..sh[2] |-> e[s][j][2] ] ],
                    !.kl_tolerance = tol,
                    !.z_size = z ]

\* One evaluation of kl_loss_function.
EvalKl ==
  /\ kl.pc = "new"
  /\ kl' = [ kl EXCEPT !.pc = "done",
                       !.KLD = kl_loss_function(kl.mu, kl.logvar,
                                                kl.kl_tolerance, kl.z_size) ]
  /\ UNCHANGED <<training, cache, painter>>

\* A process about to call train_vae_neural_painter.
TrainInit ==
  /\ cache = Absent
  /\ painter = NoPainter
  /\ kl = NoKl
  /\ \E sc \in Scenarios :
       /\ vae_train_steps = sc[1]
       /\ \E a \in ActionSizes, z \in ZSizes :
            /\ action_size = a
            /\ z_size = z
            /\ Construct(encoder, decoder, predictor, optimizer1, optimizer2, a, z)
            /\ IF sc[2] = -1
               THEN latest = Absent /\ numbered = << >>
               ELSE \E a0 \in ActionSizes :
                      LET c == EarlierCheckpoint(sc[2], sc[1], a0, z)
                      IN /\ latest = Written(c)
                         /\ numbered = (sc[2] :> Written(c))
  /\ \E cd \in Cadences :
       /\ save_every_n_steps = cd[1]
       /\ log_every_n_steps = cd[2]
       /\ tensorboard_every_n_steps = cd[3]
  /\ n_batches \in 1..MaxBatches
  /\ pc = "load"
  /\ runs = 1
  /\ pass = 0
  /\ i = 0
  /\ batch_idx = 0
  /\ batch_idx_offset = 0
  /\ executed = 0
  /\ load_result = -1
  /\ hooks = NoHooks

Init ==
  \/ TrainInit
  \/ PainterInit
  \/ KlInit

\* ------------------------------------------------------------------ actions
\* Variant of ResumeOffset that restarts at the saved step itself.
ResumeOffsetSame(ret) == ret
\* Line 226: batch_idx_offset = 1 + load_from_latest_checkpoint(...).
ResumeOffset(ret) == 1 + ret

\* Variant of NextOffset that starts the next pass at the last step again.
NextOffsetSame(last) == last
\* Line 318: batch_idx_offset = batch_idx + 1.
NextOffset(last) == last + 1

\* Line 226-234: resume from the latest checkpoint, or fail with its exception.
Load ==
  /\ pc = "load"
  /\ LET r == load_from_latest_checkpoint(latest, encoder, decoder, predictor,
                                          optimizer1, optimizer2)
     IN /\ encoder' = r.encoder
        /\ decoder' = r.decoder
        /\ predictor' = r.predictor
        /\ optimizer1' = r.optimizer1
        /\ optimizer2' = r.optimizer2
        /\ load_result' = r.ret
        /\ IF r.raised
           THEN pc' = "failed" /\ UNCHANGED batch_idx_offset
           ELSE pc' = "loop" /\ batch_idx_offset' = ResumeOffset(r.ret)
  /\ UNCHANGED <<inference, params, action_size, runs, pass, i, batch_idx, executed, hooks, disk>>

\* Variant of Phase1Step in which the learning-rate adjustment of the
\* predictor's optimizer runs before the phase test, in every step.
Phase1StepAdjustingRate(step) ==
  /\ encoder' = [encoder EXCEPT !.params = @ + 1, !.grad = "set"]
  /\ decoder' = [decoder EXCEPT !.params = @ + 1, !.grad = "set"]
  /\ optimizer1' = [optimizer1 EXCEPT !.steps = @ + 1]
  /\ optimizer2' = [optimizer2 EXCEPT !.lr = LearningRate(step, vae_train_steps)]
  /\ UNCHANGED predictor
  /\ hooks' = [ phase |-> 1,
                scalars |-> {"loss", "kl_loss", "mse_loss", "mask_mult"},
                images |-> Due(step, tensorboard_every_n_steps),
                line |-> Due(step, log_every_n_steps),
                save |-> Due(step, save_every_n_steps),
                mask_mult |-> MaskMult(step),
                forward |-> {"encoder", "decoder"} ]

\* Lines 241-273: a phase-1 step on encoder, decoder and optimizer1.
Phase1Step(step) ==
  /\ encoder' = [encoder EXCEPT !.params = @ + 1, !.grad = "set"]
  /\ decoder' = [decoder EXCEPT !.params = @ + 1, !.grad = "set"]
  /\ optimizer1' = [optimizer1 EXCEPT !.steps = @ + 1]
  /\ UNCHANGED <<predictor, optimizer2>>
  /\ hooks' = [ phase |-> 1,
                scalars |-> {"loss", "kl_loss", "mse_loss", "mask_mult"},
                images |-> Due(step, tensorboard_every_n_steps),
                line |-> Due(step, log_every_n_steps),
                save |-> Due(step, save_every_n_steps),
                mask_mult |-> MaskMult(step),
                forward |-> {"encoder", "decoder"} ]

\* Variant of Phase2Step that also steps optimizer1, on the gradients that
\* backward() left in the encoder.
Phase2StepBothOptimizers(step) ==
  /\ optimizer2' = [optimizer2 EXCEPT !.lr = LearningRate(step, vae_train_steps),
                                      !.steps = @ + 1]
  /\ predictor' = [predictor EXCEPT !.params = @ + 1, !.grad = "set"]
  /\ encoder' = [encoder EXCEPT !.params = @ + 1, !.grad = "set"]
  /\ optimizer1' = [optimizer1 EXCEPT !.steps = @ + 1]
  /\ UNCHANGED decoder
  /\ hooks' = [ phase |-> 2,
                scalars |-> {"loss2", "mu_mse", "log_var_mse"},
                images |-> Due(step, tensorboard_every_n_steps),
                line |-> Due(step, log_every_n_steps),
                save |-> Due(step, save_every_n_steps),
                mask_mult |-> 0,
                forward |-> {"encoder", "predictor"}
                            \cup (IF Due(step, tensorboard_every_n_steps)
                                  THEN {"decoder"} ELSE {}) ]

\* Lines 275-311: a phase-2 step on predictor and optimizer2.  The loss is
\* a function of the encoder's outputs, so backward() also reaches the
\* encoder's .grad, which nothing zeroes or applies in this phase.
Phase2Step(step) ==
  /\ optimizer2' = [optimizer2 EXCEPT !.lr = LearningRate(step, vae_train_steps),
                                      !.steps = @ + 1]
  /\ predictor' = [predictor EXCEPT !.params = @ + 1, !.grad = "set"]
  /\ encoder' = [encoder EXCEPT !.grad = "set"]
  /\ UNCHANGED <<decoder, optimizer1>>
  /\ hooks' = [ phase |-> 2,
                scalars |-> {"loss2", "mu_mse", "log_var_mse"},
                images |-> Due(step, tensorboard_every_n_steps),
                line |-> Due(step, log_every_n_steps),
                save |-> Due(step, save_every_n_steps),
                mask_mult |-> 0,
                forward |-> {"encoder", "predictor"}
                            \cup (IF Due(step, tensorboard_every_n_steps)
                                  THEN {"decoder"} ELSE {}) ]

\* Lines 238-313: one iteration of the inner loop up to the save test.
TrainStep ==
  /\ pc = "loop"
  /\ pass < 100
  /\ i < n_batches
  /\ LET step == i + batch_idx_offset
     IN /\ batch_idx' = step
        /\ IF IsPhase1(step, vae_train_steps)
           THEN Phase1Step(step)
           ELSE Phase2Step(step)
        /\ IF Due(step, save_every_n_steps)
           THEN pc' = "save_numbered" /\ UNCHANGED i
           ELSE pc' = "loop" /\ i' = i + 1
  /\ executed' = executed + 1
  /\ UNCHANGED <<inference, params, action_size, runs, pass, batch_idx_offset, load_result, disk>>

\* Line 159, torch.save opening '{name}_{batch_idx}.tar' for writing.
OpenNumbered ==
  /\ pc = "save_numbered"
  /\ numbered' = (batch_idx :> Partial) @@ numbered
  /\ pc' = "write_numbered"
  /\ UNCHANGED <<inference, params, action_size, runs, pass, i, batch_idx, batch_idx_offset,
                 executed, load_result, mem, hooks, latest>>

\* Line 159, torch.save completing the numbered file.
WriteNumbered ==
  /\ pc = "write_numbered"
  /\ numbered' = (batch_idx :> Written(ObjToSave(batch_idx, encoder, decoder,
                                 predictor, optimizer1, optimizer2))) @@ numbered
  /\ pc' = "save_latest"
  /\ UNCHANGED <<inference, params, action_size, runs, pass, i, batch_idx, batch_idx_offset,
                 executed, load_result, mem, hooks, latest>>

\* Line 160, torch.save opening '{name}_latest.tar' for writing.
OpenLatest ==
  /\ pc = "save_latest"
  /\ latest' = Partial
  /\ pc' = "write_latest"
  /\ UNCHANGED <<inference, params, action_size, runs, pass, i, batch_idx, batch_idx_offset,
                 executed, load_result, mem, hooks, numbered>>

\* Variant of WriteLatest that writes the latest file from the record of the
\* step before (a stale obj_to_save).
WriteLatestStale ==
  /\ pc = "write_latest"
  /\ latest' = Written(ObjToSave(batch_idx - 1, encoder, decoder, predictor,
                                 optimizer1, optimizer2))
  /\ pc' = "loop"
  /\ i' = i + 1
  /\ UNCHANGED <<inference, params, action_size, runs, pass, batch_idx, batch_idx_offset,
                 executed, load_result, mem, hooks, numbered>>

\* Lines 160-161, torch.save completing the latest file; the iteration ends.
WriteLatest ==
  /\ pc = "write_latest"
  /\ latest' = Written(ObjToSave(batch_idx, encoder, decoder, predictor,
                                 optimizer1, optimizer2))
  /\ pc' = "loop"
  /\ i' = i + 1
  /\ UNCHANGED <<inference, params, action_size, runs, pass, batch_idx, batch_idx_offset,
                 executed, load_result, mem, hooks, numbered>>

\* Line 318: the data loader is exhausted, the pass ends.
EndPass ==
  /\ pc = "loop"
  /\ pass < 100
  /\ i = n_batches
  /\ batch_idx_offset' = NextOffset(batch_idx)
  /\ pass' = pass + 1
  /\ i' = 0
  /\ UNCHANGED <<inference, params, action_size, pc, runs, batch_idx, executed, load_result,
                 mem, hooks, disk>>

\* Variant of Finish that also returns once the step counter has reached the
\* phase-1 budget vae_train_steps.
FinishAtStepBudget ==
  /\ pc = "loop"
  /\ \/ pass = 100
     \/ executed > 0 /\ batch_idx >= vae_train_steps
  /\ pc' = "done"
  /\ UNCHANGED <<inference, params, action_size, runs, pass, i, batch_idx, batch_idx_offset,
                 executed, load_result, mem, hooks, disk>>

\* Line 320: range(100) is exhausted, the writer is closed, the call returns.
Finish ==
  /\ pc = "loop"
  /\ pass = 100
  /\ pc' = "done"
  /\ UNCHANGED <<inference, params, action_size, runs, pass, i, batch_idx, batch_idx_offset,
                 executed, load_result, mem, hooks, disk>>

Running == {"load", "loop", "save_numbered", "write_numbered", "save_latest",
            "write_latest"}

\* External termination of the process: its memory is gone, the files stay.
Crash ==
  /\ pc \in Running
  /\ pc' = "dead"
  /\ pass' = 0 /\ i' = 0 /\ batch_idx' = 0 /\ batch_idx_offset' = 0
  /\ executed' = 0 /\ load_result' = -1
  /\ Construct(encoder', decoder', predictor', optimizer1', optimizer2',
               action_size, z_size)
  /\ hooks' = NoHooks
  /\ UNCHANGED <<inference, params, action_size, runs, disk>>

\* A new process is started on the same save directory (lines 215-223).
Restart ==
  /\ pc \in {"dead", "failed", "done"}
  /\ runs < MaxRuns
  /\ runs' = runs + 1
  /\ \E a \in ActionSizes :
       /\ action_size' = a
       /\ Construct(encoder', decoder', predictor', optimizer1', optimizer2',
                    a, z_size)
  /\ pc' = "load"
  /\ pass' = 0 /\ i' = 0 /\ batch_idx' = 0 /\ batch_idx_offset' = 0
  /\ executed' = 0 /\ load_result' = -1
  /\ hooks' = NoHooks
  /\ UNCHANGED <<inference, params, disk>>

Next ==
  \/ Load
  \/ TrainStep
  \/ OpenNumbered
  \/ WriteNumbered
  \/ OpenLatest
  \/ WriteLatest
  \/ EndPass
  \/ Finish
  \/ Crash
  \/ Restart
  \/ PainterCreate
  \/ PainterLoad
  \/ PainterForward
  \/ EvalKl

Spec == Init /\ [][Next]_vars

\* The steps of a running call of train_vae_neural_painter.
ProcessStep ==
  \/ Load
  \/ TrainStep
  \/ OpenNumbered
  \/ WriteNumbered
  \/ OpenLatest
  \/ WriteLatest
  \/ EndPass
  \/ Finish

\* Calls that nothing terminates from outside: a process is started again only
\* after the call before it has returned or raised.
RunNext ==
  \/ ProcessStep
  \/ Restart

\* The single thread of control of a call keeps executing its next statement.
FairSpec == TrainInit /\ [][RunNext]_vars /\ WF_vars(ProcessStep)

\* ------------------------------------------------------------------- claims
\* The state in which load_from_latest_checkpoint has just returned or raised.
AfterLoad == pc \in {"loop", "failed"} /\ executed = 0 /\ pass = 0 /\ i = 0

\* A step of the loop has just been executed.
StepTaken == executed' = executed + 1

SavePcs == {"save_numbered", "write_numbered", "save_latest", "write_latest"}

NoneChanged ==
  /\ encoder = VAEEncoder(z_size)
  /\ decoder = VAEDecoder(z_size)
  /\ predictor = VAEPredictor(action_size, z_size)
  /\ optimizer1 = Adam("optimizer1")
  /\ optimizer2 = Adam("optimizer2")

\* The five targets hold what the record c holds for them.
HoldState(c) ==
  /\ encoder.kind = c.encoder_state_dict.kind
  /\ encoder.shape = c.encoder_state_dict.shape
  /\ encoder.params = c.encoder_state_dict.params
  /\ decoder.kind = c.decoder_state_dict.kind
  /\ decoder.shape = c.decoder_state_dict.shape
  /\ decoder.params = c.decoder_state_dict.params
  /\ predictor.kind = c.predictor_state_dict.kind
  /\ predictor.shape = c.predictor_state_dict.shape
  /\ predictor.params = c.predictor_state_dict.params
  /\ optimizer1.steps = c.optimizer1_state_dict.steps
  /\ optimizer1.lr = c.optimizer1_state_dict.lr
  /\ optimizer2.steps = c.optimizer2_state_dict.steps
  /\ optimizer2.lr = c.optimizer2_state_dict.lr

\* C1: every executed step s < vae_train_steps is a phase-1 step (optimizer1
\* steps, optimizer2 does not) and every executed step s >= vae_train_steps is
\* a phase-2 step (optimizer2 steps, optimizer1 does not); the step counter
\* alone selects the phase.
C1_PhaseByStep ==
  [][ StepTaken =>
        /\ (optimizer1'.steps = optimizer1.steps + 1) <=> (batch_idx' < vae_train_steps)
        /\ (optimizer1'.steps = optimizer1.steps) <=> (batch_idx' >= vae_train_steps)
        /\ (optimizer2'.steps = optimizer2.steps + 1) <=> (batch_idx' >= vae_train_steps)
        /\ (optimizer2'.steps = optimizer2.steps) <=> (batch_idx' < vae_train_steps)
        /\ hooks'.phase = (IF batch_idx' < vae_train_steps THEN 1 ELSE 2) ]_vars

\* C1 witness: step N = vae_train_steps has just run as the first phase-2 step
\* of a training whose steps 0..N-1 were all phase-1 steps.
C1_Witness ==
  /\ executed > 0
  /\ batch_idx = vae_train_steps
  /\ hooks.phase = 2
  /\ optimizer1.steps = vae_train_steps
  /\ optimizer2.steps = 1

\* C2: after a phase-2 step s the predictor's optimizer has learning rate 0.01
\* when s - N < 20000, 0.001 when 20000 <= s - N < 80000 and 0.0001 when
\* s - N >= 80000, also in the first step after a resume.
C2_LearningRateStaircase ==
  (executed > 0 /\ batch_idx >= vae_train_steps) =>
    /\ (batch_idx - vae_train_steps < 20000 => optimizer2.lr = "0.01")
    /\ ((batch_idx - vae_train_steps >= 20000 /\ batch_idx - vae_train_steps < 80000)
          => optimizer2.lr = "0.001")
    /\ (batch_idx - vae_train_steps >= 80000 => optimizer2.lr = "0.0001")

\* C2 witness: the first step after a resume is step N+20000; the checkpoint
\* restored carried 0.01 and the step ran with 0.001.
C2_Witness ==
  /\ executed = 1
  /\ runs > 1
  /\ batch_idx = vae_train_steps + 20000
  /\ latest.status = "ok"
  /\ latest.data.batch_idx = batch_idx - 1
  /\ latest.data.optimizer2_state_dict.lr = "0.01"
  /\ optimizer2.lr = "0.001"

\* C3 (as claimed): after any call of load_from_latest_checkpoint either all
\* five targets hold the state of the checkpoint file or none has changed.
C3_AllOrNothing ==
  AfterLoad => \/ NoneChanged
               \/ latest.status = "ok" /\ HoldState(latest.data)

\* The process was started with the architecture of the checkpoints on disk.
SameArchitecture ==
  \A s \in DOMAIN numbered :
    numbered[s].status = "ok" =>
      /\ numbered[s].data.predictor_state_dict.shape = <<action_size, z_size>>
      /\ numbered[s].data.encoder_state_dict.shape = <<z_size>>

\* C4 (as claimed): a process started after a termination resumes: the load
\* returns, with the step and the five bundles of one completed numbered save
\* (or with nothing when no save was completed), and no completely written
\* save is more than one save interval ahead of the step resumed from.
C4_ResumeAfterTermination ==
  (AfterLoad /\ runs > 1 /\ SameArchitecture) =>
    /\ pc = "loop"
    /\ \/ load_result = -1 /\ NoneChanged
       \/ /\ load_result \in DOMAIN numbered
          /\ numbered[load_result].status = "ok"
          /\ numbered[load_result].data.batch_idx = load_result
          /\ HoldState(numbered[load_result].data)
    /\ \A s \in DOMAIN numbered :
         numbered[s].status = "ok" => load_result >= s - save_every_n_steps

\* C5: with no latest file, load_from_latest_checkpoint returns -1 without
\* raising and leaves the five targets as they were before the call (fresh
\* from construction); the loop then starts at step offset 0.
C5_NoCheckpointNoChange ==
  (AfterLoad /\ latest.status = "absent") =>
    /\ pc = "loop"
    /\ load_result = -1
    /\ NoneChanged
    /\ batch_idx_offset = 0

\* C5 witness: a load has returned on an empty save directory.
C5_Witness ==
  /\ AfterLoad
  /\ latest.status = "absent"
  /\ DOMAIN numbered = {}
  /\ pc = "loop"
  /\ load_result = -1

\* C6: round trip.  When save_train_checkpoint has completed for step S the
\* latest file records S and the state of the five components at the save;
\* when load_from_latest_checkpoint returns on a latest file it returns the
\* step of the file and the five targets hold the state of the file.
C6_RoundTrip ==
  /\ (executed > 0 /\ pc \in {"loop", "done"} /\ batch_idx % save_every_n_steps = 0) =>
       /\ latest.status = "ok"
       /\ latest.data.batch_idx = batch_idx
       /\ HoldState(latest.data)
  /\ (AfterLoad /\ pc = "loop" /\ latest.status # "absent") =>
       /\ latest.status = "ok"
       /\ load_result = latest.data.batch_idx
       /\ HoldState(latest.data)

\* C6 witness: a restarted process has loaded the checkpoint that the process
\* before it saved at step N+49 in phase 2 with learning rate 0.01, over
\* targets that were fresh before the load.
C6_Witness ==
  /\ AfterLoad
  /\ pc = "loop"
  /\ runs > 1
  /\ load_result = 100
  /\ vae_train_steps = 51
  /\ predictor.params = 50
  /\ optimizer2.lr = "0.01"
  /\ encoder.params = 51

\* C7: within one run consecutive executed steps differ by exactly 1, across
\* pass boundaries too.
C7_StepsConsecutive ==
  [][ (StepTaken /\ executed > 0) => batch_idx' = batch_idx + 1 ]_vars

\* C7 witness: the first step of the second pass over a two-batch loader has
\* run and is the third consecutive step of the run.
C7_Witness ==
  /\ n_batches = 2
  /\ pass = 1
  /\ executed = 3
  /\ batch_idx = load_result + 3
  /\ batch_idx = batch_idx_offset

\* C8: the load returns the step S of the latest checkpoint (-1 without one),
\* the state it restores has received exactly the S+1 updates of steps 0..S,
\* and the first step the run executes is S+1 (0 without a checkpoint).
C8_ResumeAtNextStep ==
  /\ (executed = 1 => batch_idx = load_result + 1)
  /\ (AfterLoad /\ pc = "loop") =>
       /\ load_result = (IF latest.status = "absent" THEN -1
                         ELSE latest.data.batch_idx)
       /\ optimizer1.steps + optimizer2.steps = load_result + 1
       /\ encoder.params + predictor.params = load_result + 1

\* C8 witness: a restarted process resumed from the checkpoint of step 50 and
\* has executed step 51 as its first step.
C8_Witness ==
  /\ runs > 1
  /\ executed = 1
  /\ load_result = 50
  /\ batch_idx = 51

\* C9: at every executed step s images are emitted iff s is a multiple of
\* tensorboard_every_n_steps, a line is printed iff s is a multiple of
\* log_every_n_steps, scalars are emitted, and a checkpoint is saved iff s is
\* a multiple of save_every_n_steps.
C9_CadenceHooks ==
  executed > 0 =>
    /\ hooks.images <=> (batch_idx % tensorboard_every_n_steps = 0)
    /\ hooks.line <=> (batch_idx % log_every_n_steps = 0)
    /\ hooks.scalars # {}
    /\ (pc \in SavePcs) => (batch_idx % save_every_n_steps = 0)
    /\ (pc \in {"loop", "done"}) =>
         ( (batch_idx % save_every_n_steps = 0)
           <=> /\ latest.status = "ok"
               /\ latest.data.batch_idx = batch_idx
               /\ batch_idx \in DOMAIN numbered
               /\ numbered[batch_idx].status = "ok" )

\* C9 witness: step 0 of a training started from scratch has emitted images
\* and a line and has saved the checkpoint of step 0.
C9_Witness ==
  /\ executed = 1
  /\ batch_idx = 0
  /\ pc = "loop"
  /\ hooks.images
  /\ hooks.line
  /\ latest.status = "ok"
  /\ latest.data.batch_idx = 0

\* C10: a phase-1 step leaves the predictor and optimizer2 (its learning rate
\* included) as they were and updates encoder, decoder and optimizer1.
C10_Phase1Frame ==
  [][ (StepTaken /\ batch_idx' < vae_train_steps) =>
        /\ predictor' = predictor
        /\ optimizer2' = optimizer2
        /\ encoder'.params = encoder.params + 1
        /\ decoder'.params = decoder.params + 1
        /\ optimizer1'.steps = optimizer1.steps + 1 ]_vars

\* C10 witness: the last phase-1 step has run; the predictor and its optimizer
\* are still as constructed.
C10_Witness ==
  /\ executed > 0
  /\ batch_idx = vae_train_steps - 1
  /\ hooks.phase = 1
  /\ encoder.params = vae_train_steps
  /\ predictor = VAEPredictor(action_size, z_size)
  /\ optimizer2 = Adam("optimizer2")

\* C11: a phase-2 step runs the encoder forward, steps only optimizer2 (on
\* the predictor) and leaves the encoder's parameters, the decoder and
\* optimizer1 as they were.
C11_Phase2Frame ==
  [][ (StepTaken /\ batch_idx' >= vae_train_steps) =>
        /\ "encoder" \in hooks'.forward
        /\ "predictor" \in hooks'.forward
        /\ encoder'.params = encoder.params
        /\ decoder'.params = decoder.params
        /\ optimizer1' = optimizer1
        /\ predictor'.params = predictor.params + 1
        /\ optimizer2'.steps = optimizer2.steps + 1 ]_vars

\* C11 witness: a phase-2 step after the first one has run: the encoder was
\* run forward and has gradients, and it, the decoder and optimizer1 still
\* have their vae_train_steps updates while the predictor has more than one.
C11_Witness ==
  /\ executed > 0
  /\ batch_idx > vae_train_steps
  /\ hooks.phase = 2
  /\ "encoder" \in hooks.forward
  /\ encoder.grad = "set"
  /\ encoder.params = vae_train_steps
  /\ decoder.params = vae_train_steps
  /\ optimizer1.steps = vae_train_steps
  /\ predictor.params > 1

\* C12: a phase-1 step s passes mask multiplier 10 when s <= 10000 and 1 when
\* s > 10000, whatever vae_train_steps is.
C12_MaskMultThreshold ==
  (executed > 0 /\ batch_idx < vae_train_steps) =>
    /\ (batch_idx <= 10000 => hooks.mask_mult = 10)
    /\ (batch_idx > 10000 => hooks.mask_mult = 1)

\* C12 witness: step 10000 has just run in phase 1 with multiplier 10.
C12_Witness ==
  /\ executed > 0
  /\ batch_idx = 10000
  /\ hooks.phase = 1
  /\ hooks.mask_mult = 10

\* The run has completed at least one save: the last multiple of
\* save_every_n_steps up to the current step was executed by this run and its
\* save has returned.
SaveCompletedInRun ==
  /\ pc \in {"loop", "done"}
  /\ executed > 0
  /\ batch_idx - (batch_idx % save_every_n_steps) > load_result

\* C16: once a save of the run has completed, the numbered file of the last
\* saved step and the latest file hold the same record, and the step in the
\* latest file is the largest numbered step and a multiple of
\* save_every_n_steps.
C16_NumberedEqualsLatest ==
  SaveCompletedInRun =>
    /\ latest.status = "ok"
    /\ latest.data.batch_idx \in DOMAIN numbered
    /\ numbered[latest.data.batch_idx] = latest
    /\ latest.data.batch_idx <= batch_idx
    /\ batch_idx - latest.data.batch_idx < save_every_n_steps
    /\ latest.data.batch_idx % save_every_n_steps = 0
    /\ \A t \in DOMAIN numbered : t <= latest.data.batch_idx

\* C16 witness: the third save of a run started from scratch has completed;
\* three numbered files exist and the latest file equals the last of them.
C16_Witness ==
  /\ SaveCompletedInRun
  /\ runs = 1
  /\ load_result = -1
  /\ Cardinality(DOMAIN numbered) = 3
  /\ batch_idx = 2 * save_every_n_steps
  /\ numbered[batch_idx] = latest
  /\ numbered[0] # latest

\* C17: every completely written checkpoint that records step S holds an
\* encoder, a decoder and an optimizer1 with min(S+1, N) updates and a
\* predictor and an optimizer2 with max(0, S+1-N) updates.
UpdatesMatchStep(c) ==
  LET S == c.batch_idx
      p1 == IF S + 1 < vae_train_steps THEN S + 1 ELSE vae_train_steps
      p2 == IF S + 1 - vae_train_steps > 0 THEN S + 1 - vae_train_steps ELSE 0
  IN /\ c.encoder_state_dict.params = p1
     /\ c.decoder_state_dict.params = p1
     /\ c.optimizer1_state_dict.steps = p1
     /\ c.predictor_state_dict.params = p2
     /\ c.optimizer2_state_dict.steps = p2

C17_CheckpointUpdateCounts ==
  /\ latest.status = "ok" => UpdatesMatchStep(latest.data)
  /\ \A s \in DOMAIN numbered :
       numbered[s].status = "ok" =>
         numbered[s].data.batch_idx = s /\ UpdatesMatchStep(numbered[s].data)

\* C17 witness: after a termination and a resume, the checkpoint of step 100
\* of a training with N = 51 holds 51 phase-1 and 50 phase-2 updates.
C17_Witness ==
  /\ runs > 1
  /\ vae_train_steps = 51
  /\ load_result >= 0
  /\ load_result < 100
  /\ latest.status = "ok"
  /\ latest.data.batch_idx = 100
  /\ latest.data.encoder_state_dict.params = 51
  /\ latest.data.predictor_state_dict.params = 50

\* C18: a call that is not terminated from outside ends: it raises in the
\* load or it returns, and when it returns it has made exactly 100 passes and
\* executed exactly 100 * (batches per pass) consecutive steps from the step
\* it started at, in a first run and in a resumed run alike.
C18_RunTerminates ==
  /\ [](pc = "done" => /\ pass = 100
                       /\ executed = 100 * n_batches
                       /\ batch_idx = load_result + 100 * n_batches)
  /\ ((pc = "load") ~> (pc \in {"done", "failed"}))

\* C18 witness: a run resumed in phase 2 (from a step past vae_train_steps)
\* over a two-batch loader has returned after 200 more steps.
C18_Witness ==
  /\ pc = "done"
  /\ runs > 1
  /\ load_result >= vae_train_steps
  /\ n_batches = 2
  /\ pass = 100
  /\ executed = 200
  /\ batch_idx = load_result + 200

\* C13: constructing the wrapper with pretrained=True downloads the bundle
\* exactly when the cache file is absent; a download that fails aborts the
\* construction; without pretrained nothing is fetched and the cache is left
\* alone. Loading a checkpoint, at construction or later, sets the decoder and
\* predictor weights to the file's decoder and predictor bundles and touches
\* nothing else: the wrapper holds no encoder, and the encoder and optimizer
\* bundles of the file are not read.
C13_PretrainedCache ==
  [][ /\ (painter.pc = "new" /\ painter'.pc # "new") =>
           /\ DOMAIN painter'.modules = {"predictor", "decoder"}
           /\ (painter.pretrained =>
                 /\ (painter'.downloads = 1 <=> cache.status = "absent")
                 /\ (painter'.downloads = 0 => cache' = cache)
                 /\ (painter'.download \in {"raises", "returns_none", "truncated"}
                       => painter'.pc = "aborted")
                 /\ (painter'.pc = "ready" =>
                       /\ cache'.status = "ok"
                       /\ painter'.modules.decoder.params =
                            cache'.data.decoder_state_dict.params
                       /\ painter'.modules.predictor.params =
                            cache'.data.predictor_state_dict.params))
           /\ (~painter.pretrained =>
                 /\ painter'.downloads = 0
                 /\ cache' = cache
                 /\ painter'.pc = "ready"
                 /\ painter'.modules.decoder.params = 0
                 /\ painter'.modules.predictor.params = 0)
      /\ (painter.pc = "ready" /\ painter'.pc \in {"loaded", "raised"}) =>
           /\ DOMAIN painter'.modules = {"predictor", "decoder"}
           /\ UNCHANGED <<training, cache>>
           /\ (painter'.pc = "loaded" =>
                 \E file \in TrainCheckpoints(painter.z_size) :
                   /\ file.status = "ok"
                   /\ "encoder_state_dict" \in DOMAIN file.data
                   /\ painter'.modules.decoder.params =
                        file.data.decoder_state_dict.params
                   /\ painter'.modules.predictor.params =
                        file.data.predictor_state_dict.params) ]_vars

\* A wrapper built with pretrained=True on an empty cache, which downloaded
\* the bundle, and then loaded a training checkpoint over it.
C13_Witness ==
  /\ painter.pc = "loaded"
  /\ painter.pretrained
  /\ painter.downloads = 1
  /\ cache = Written(PretrainedBundle(painter.z_size))
  /\ painter.modules.decoder.params # cache.data.decoder_state_dict.params

\* C14: forward decodes the predictor's sampled latent vector when the wrapper
\* is stochastic and the predictor's mean when it is not, so with
\* stochastic=False the output is the same whatever the sampling noise.
C14_ForwardLatentOrMean ==
  painter.out # NoOut =>
    LET pred == painter.modules.predictor
        dec == painter.modules.decoder
        f == PredictorForward(pred, painter.x, painter.eps)
    IN /\ painter.predicted = f
       /\ (painter.stochastic => painter.out = DecoderForward(dec, f.z))
       /\ (~painter.stochastic =>
             /\ painter.out = DecoderForward(dec, f.mu)
             /\ \A e \in Noise :
                  painter.out =
                    DecoderForward(dec, PredictorForward(pred, painter.x, e).mu))

\* A deterministic wrapper whose forward pass drew non-zero noise: the sampled
\* latent vector differs from the mean and the output is the decoded mean.
C14_Witness ==
  /\ painter.out # NoOut
  /\ ~painter.stochastic
  /\ painter.eps # 0
  /\ painter.predicted.z # painter.predicted.mu
  /\ painter.out.input = painter.predicted.mu

\* C15: kl_loss_function replaces each sample's divergence by
\* kl_tolerance * z_size where it is below that, then averages: the result is
\* the mean of the per-sample maxima, is at least kl_tolerance * z_size, is
\* never negative and never NaN, and is exactly kl_tolerance * z_size when
\* every mean and log-variance is 0 and the product is positive.
C15_KlFloor ==
  kl.pc = "done" =>
    LET B == Len(kl.mu)
        floor == Fin(2 * kl.kl_tolerance * kl.z_size)
        raw == [ s \in 1..B |-> RawKLD(kl.mu[s], kl.logvar[s]) ]
        atleast == [ s \in 1..B |-> IF XGe(raw[s], floor) THEN raw[s] ELSE floor ]
    IN /\ kl.KLD.den = B
       /\ kl.KLD.num.k # "nan"
       /\ kl.KLD.num = XSum(atleast, B)
       /\ XGe(kl.KLD.num, Fin(B * 2 * kl.kl_tolerance * kl.z_size))
       /\ XGe(kl.KLD.num, Fin(0))
       /\ ( ( /\ \A s \in 1..B : \A j \in DOMAIN kl.mu[s] :
                   kl.mu[s][j] = 0 /\ kl.logvar[s][j] = 0
              /\ kl.kl_tolerance * kl.z_size > 0 )
            => kl.KLD.num = Fin(B * 2 * kl.kl_tolerance * kl.z_size) )

\* A batch of two samples, the first at mean 0 and log-variance 0 and lifted
\* to the floor, the second above the floor and kept.
C15_Witness ==
  /\ kl.pc = "done"
  /\ Len(kl.mu) = 2
  /\ kl.z_size = Len(kl.mu[1])
  /\ kl.kl_tolerance = 500
  /\ \A j \in DOMAIN kl.mu[1] : kl.mu[1][j] = 0 /\ kl.logvar[1][j] = 0
  /\ RawKLD(kl.mu[2], kl.logvar[2]).k = "fin"
  /\ RawKLD(kl.mu[2], kl.logvar[2]).v > 2 * kl.kl_tolerance * kl.z_size
  /\ kl.KLD.num.v =
       2 * kl.kl_tolerance * kl.z_size + RawKLD(kl.mu[2], kl.logvar[2]).v

====
